---- MODULE Spec2Model ----
(***************************************************************************)
(* Model of the frog-game server (src/server/src/index.js): the player     *)
(* registry, the name reservations, the fly population, the per-connection *)
(* attack cooldown maps, the swim-recovery timers and the socket handlers. *)
(*                                                                         *)
(* Representation                                                          *)
(*  - A JavaScript Map or Set is a function with a partial domain or a set.*)
(*  - Times are in milliseconds and are measured from the present:        *)
(*    Date.now() is 0, a time in the past is negative.  Handlers take no   *)
(*    time; when time passes (by TimeStep) every stored time moves into    *)
(*    the past, and is held at the value beyond which no comparison of     *)
(*    the code can tell it from an older one.  The simulation ticks run    *)
(*    every 1000/60 ms, below that resolution: a fly's nextDirectionChange *)
(*    is measured from the latest tick, and each tick moves it             *)
(*    TickInterval into the past.                                          *)
(*  - A player object has an identity (field ref): the setTimeout callback *)
(*    of a push closes over the object, not over the id, so an object that *)
(*    left the registry lives on in detached while a timer refers to it.   *)
(*  - Sizes are in hundredths (0.7 is 70), fly coordinates, speeds and     *)
(*    jitter in tenths of a world unit, fly angles in degrees.             *)
(*  - The events a handler emits are operators of the state it runs in    *)
(*    and of its input (JoinEvents, AttackEvents, ...), in emission order. *)
(***************************************************************************)
EXTENDS Integers, Sequences, FiniteSets, TLC

VARIABLES
  status,           \* per socket id: "new" (not yet connected), "open", "closed" (the
                    \* client left) or "kicked" (socket.disconnect() by the server)
  players,          \* gameState.players: Map socket id -> player object
  playerNames,      \* playerNames: Map socket id -> name
  takenUsernames,   \* takenUsernames: Set of names
  socketPlayerName, \* socket.playerName, where a handler has set it
  lastAttackTime,   \* per connection: Map target id -> time of the last applied attack
  flies,            \* gameState.flies: array of fly objects
  nextFlyId,        \* the number of fly ids generated so far (ids are unique)
  lilyPads,         \* gameState.lilyPads: array of pads, immutable after start
  timers,           \* pending setTimeout callbacks of pushes
  detached,         \* player objects no longer in the registry that a pending timer refers to
  tickCount         \* number of simulation ticks so far

vars == <<status, players, playerNames, takenUsernames, socketPlayerName,
          lastAttackTime, flies, nextFlyId, lilyPads, timers, detached,
          tickCount>>

-----------------------------------------------------------------------------
(* Program constants *)

WorldWidth == 2400
WorldHeight == 1800
MaxNameLength == 16
InitialFlies == 10
BaseHealth == 50
HealthPerLevel == 10
AttackDamage == 10
AttackCooldown == 500
PushCooldown == 2000
SwimDuration == 1000
MaxLevel == 10
BaseSize == 70
SizePerLevel == 5
PadRadius == 80
FlySpawnPadding == 100
FlyBouncePadding == 50

(* Bounds of the model *)

MaxPads == 2           \* number of lily pads of the generated world
MaxCatches == 5        \* number of successful catches (fresh fly ids) in a run
MaxTicks == 1          \* number of simulation ticks in a run
MaxXp == 190           \* xp of the player a progression run starts with
MaxGridCells == 4
MaxExtraPads == 2
MaxAttempts == 2
MaxEdgeCells == 2
MaxTimers == 2         \* number of pending swim-recovery timers

Max(a, b) == IF a >= b THEN a ELSE b
Min(a, b) == IF a <= b THEN a ELSE b

(* Time *)

now == 0
TimeStep == AttackCooldown
Epoch == 0 - (PushCooldown + TimeStep)   \* the time 0 of the code, and any time as far back
HalfStep == AttackCooldown \div 2
EarlierBy(time, step, floor) == Max(time - step, floor)
Earlier(time, floor) == EarlierBy(time, TimeStep, floor)
TickInterval == 1000 \div 60

AllSockets == {"s1", "s2", "s3"}

Name16 == "ABCDEFGHIJKLMNOP"
Name17 == "ABCDEFGHIJKLMNOPQ"
Anonymous == "Anonymous"

Remove(f, k) == [x \in DOMAIN f \ {k} |-> f[x]]
Put(f, k, v) == [x \in DOMAIN f \cup {k} |-> IF x = k THEN v ELSE f[x]]
EmptyMap == [x \in {} |-> 0]

-----------------------------------------------------------------------------
(* World generation: a fixed layout that generateLilyPads can return, the  *)
(* centre spawn pad first and further pads minDistance apart.              *)

PadMinDistance == PadRadius * 3

GeneratedPads ==
  [i \in 1..MaxPads |->
     [id |-> IF i = 1 THEN "pad-center" ELSE "pad-extra-" \o ToString(i - 2),
      x |-> WorldWidth \div 2 + (i - 1) * PadMinDistance,
      y |-> WorldHeight \div 2,
      isSpawnPoint |-> (i = 1)]]

PadIds == {GeneratedPads[i].id : i \in 1..MaxPads} \cup {"pad-unknown"}

(* generateLilyPads, with its random draws taken from small sets.  The     *)
(* result is the set of pad lists its runs can return.  The grid cells     *)
(* before the centre cell and after the last cell followed draw no pad     *)
(* (Math.random() >= 0.8); the connector loop runs MaxExtraPads times with *)
(* at most MaxAttempts attempts each.                                      *)
GridSize == 250
PadMaxDistance == PadRadius * 4
PadPadding == PadRadius * 2
GridCols == WorldWidth \div GridSize
GridRows == WorldHeight \div GridSize

CenterPad ==
  [id |-> "pad-center", x |-> WorldWidth \div 2, y |-> WorldHeight \div 2,
   isSpawnPoint |-> TRUE]

(* the square of Math.sqrt(Math.pow(x1 - x2, 2) + Math.pow(y1 - y2, 2)) *)
Distance2(x1, y1, x2, y2) == (x1 - x2) * (x1 - x2) + (y1 - y2) * (y1 - y2)

(* Variant: pads may not overlap, but may be nearer than minDistance *)
TooCloseRadius(x, y, pad) ==
  Distance2(x, y, pad.x, pad.y) < PadRadius * PadRadius

(* distance < minDistance *)
TooClose(x, y, pad) ==
  Distance2(x, y, pad.x, pad.y) < PadMinDistance * PadMinDistance

ValidPosition(pads, x, y) == \A i \in 1..Len(pads) : ~TooClose(x, y, pads[i])

HasNearbyPad(pads, x, y) ==
  \E i \in 1..Len(pads) :
    Distance2(x, y, pads[i].x, pads[i].y) <= PadMaxDistance * PadMaxDistance

IsCenterCell(row, col) == GridCols \div 2 = col /\ GridRows \div 2 = row

(* Math.random() in hundredths *)
JitterDraws == {0, 90}
GridDraws ==
  {[place |-> FALSE, rx |-> 0, ry |-> 0]}
    \cup {[place |-> TRUE, rx |-> r, ry |-> r] : r \in JitterDraws}

GridCellPads(pads, row, col, draw) ==
  IF IsCenterCell(row, col) \/ ~draw.place
    THEN pads
    ELSE LET randX == col * GridSize + PadPadding
                        + (draw.rx * (GridSize - PadPadding * 2)) \div 100
             randY == row * GridSize + PadPadding
                        + (draw.ry * (GridSize - PadPadding * 2)) \div 100
         IN  IF ValidPosition(pads, randX, randY)
                  /\ (Len(pads) < 5 \/ HasNearbyPad(pads, randX, randY))
               THEN Append(pads,
                           [id |-> "pad-" \o ToString(row) \o "-" \o ToString(col),
                            x |-> randX, y |-> randY, isSpawnPoint |-> FALSE])
               ELSE pads

(* the n-th cell followed, in the order of the loops, from the centre cell on *)
WindowCell(n) == (GridRows \div 2) * GridCols + GridCols \div 2 + (n - 1)

RECURSIVE GridPhase(_, _)
GridPhase(results, n) ==
  IF n > MaxGridCells \/ WindowCell(n) >= GridRows * GridCols
    THEN results
    ELSE GridPhase({GridCellPads(pads, WindowCell(n) \div GridCols,
                                 WindowCell(n) % GridCols, draw) :
                      pads \in results, draw \in GridDraws},
                   n + 1)

(* The same loop over count cells from a given cell on, for the cells at   *)
(* the edge of the world: the last cell of the centre row and the first    *)
(* cells of the next row.                                                  *)
RECURSIVE GridCells(_, _, _)
GridCells(results, cell, count) ==
  IF count = 0 \/ cell >= GridRows * GridCols
    THEN results
    ELSE GridCells({GridCellPads(pads, cell \div GridCols, cell % GridCols, draw) :
                      pads \in results, draw \in GridDraws},
                   cell + 1, count - 1)

FirstEdgeCell == (GridRows \div 2) * GridCols + GridCols - 1

(* <<Math.cos(angle), Math.sin(angle)>> in fifths *)
Directions == {<<5, 0>>, <<0, 5>>, <<0 - 5, 0>>, <<3, 4>>}
ConnectorDraws ==
  [source : {0, 50, 99}, direction : Directions, distance : {0, 75}]

InBounds(x, y) ==
  ~(x < PadPadding \/ x > WorldWidth - PadPadding
      \/ y < PadPadding \/ y > WorldHeight - PadPadding)

RECURSIVE ConnectorAttempts(_, _, _)
ConnectorAttempts(pads, i, attempts) ==
  IF attempts >= MaxAttempts
    THEN {pads}
    ELSE UNION
      {LET sourcePad == pads[(draw.source * Len(pads)) \div 100 + 1]
           distance == PadMinDistance
                         + (draw.distance * (PadMaxDistance - PadMinDistance)) \div 100
           x == sourcePad.x + (draw.direction[1] * distance) \div 5
           y == sourcePad.y + (draw.direction[2] * distance) \div 5
       IN  IF InBounds(x, y) /\ ValidPosition(pads, x, y)
             THEN {Append(pads, [id |-> "pad-extra-" \o ToString(i),
                                 x |-> x, y |-> y, isSpawnPoint |-> FALSE])}
             ELSE ConnectorAttempts(pads, i, attempts + 1) :
         draw \in ConnectorDraws}

RECURSIVE ConnectorPhase(_, _)
ConnectorPhase(results, i) ==
  IF i >= MaxExtraPads
    THEN results
    ELSE ConnectorPhase(UNION {ConnectorAttempts(pads, i, 0) : pads \in results}, i + 1)

GenerateLilyPadsAtEdge ==
  ConnectorPhase(GridCells({<<CenterPad>>}, FirstEdgeCell, MaxEdgeCells), 0)

GenerateLilyPads == ConnectorPhase(GridPhase({<<CenterPad>>}, 1), 0)

-----------------------------------------------------------------------------
(* Progression *)

Infinity == 2 ^ 30

(* Variant: one more xp per level *)
GetRequiredXPForLevelPlusOne(level) ==
  IF level >= MaxLevel THEN Infinity ELSE (level * 3) + 3

GetRequiredXPForLevel(level) ==
  IF level >= MaxLevel THEN Infinity ELSE (level * 3) + 2

RECURSIVE LevelLoop(_, _, _)
(* Variant: the threshold itself does not reach the next level *)
LevelLoopInclusive(level, xpRequired, xp) ==
  IF level < MaxLevel
    THEN LET required == xpRequired + GetRequiredXPForLevel(level)
         IN  IF xp <= required THEN level ELSE LevelLoop(level + 1, required, xp)
    ELSE MaxLevel

LevelLoop(level, xpRequired, xp) ==
  IF level < MaxLevel
    THEN LET required == xpRequired + GetRequiredXPForLevel(level)
         IN  IF xp < required THEN level ELSE LevelLoop(level + 1, required, xp)
    ELSE MaxLevel

(* Variant: no level cap *)
RECURSIVE LevelLoopUncapped(_, _, _)
LevelLoopUncapped(level, xpRequired, xp) ==
  LET required == xpRequired + (level * 3) + 2
  IN  IF xp < required THEN level ELSE LevelLoopUncapped(level + 1, required, xp)

GetLevelFromXPUncapped(xp) == LevelLoopUncapped(1, 0, xp)

GetLevelFromXP(xp) == LevelLoop(1, 0, xp)

GetSizeForLevel(level) == BaseSize + ((level - 1) * SizePerLevel)

MaxHealthForLevel(level) == BaseHealth + ((level - 1) * HealthPerLevel)

-----------------------------------------------------------------------------
(* Flies.  A draw is the values of the Math.random() calls of one           *)
(* generateFly or of one fly's tick, in thousandths (0..999).               *)

FlyId(n) == "fly-" \o ToString(n)

SpeedTier(rand) ==
  IF rand < 400 THEN [min |-> 30, max |-> 40]
  ELSE IF rand < 750 THEN [min |-> 45, max |-> 60]
  ELSE [min |-> 70, max |-> 80]

GenerateFly(n, r, time) ==
  LET speedTier == SpeedTier(r.tier)
  IN  [id |-> FlyId(n),
       x |-> FlySpawnPadding * 10 + (r.x * (WorldWidth - FlySpawnPadding * 2)) \div 100,
       y |-> FlySpawnPadding * 10 + (r.y * (WorldHeight - FlySpawnPadding * 2)) \div 100,
       angle |-> (r.angle * 360) \div 1000,
       angularVelocity |-> ((r.av - 500) * 6) \div 1000,
       speed |-> speedTier.min + (r.speed * (speedTier.max - speedTier.min)) \div 1000,
       nextDirectionChange |-> time + 2000 + r.ndc * 3]

LowDraw == [tier |-> 0, x |-> 0, y |-> 0, angle |-> 0, av |-> 0, speed |-> 0, ndc |-> 0]
HighDraw == [tier |-> 999, x |-> 999, y |-> 999, angle |-> 999, av |-> 999,
             speed |-> 999, ndc |-> 999]
MidDraw == [tier |-> 500, x |-> 500, y |-> 500, angle |-> 500, av |-> 500,
            speed |-> 500, ndc |-> 500]

InitialFlyDraw(i) == IF i % 2 = 1 THEN LowDraw ELSE HighDraw

InitialFlyList == [i \in 1..InitialFlies |-> GenerateFly(i, InitialFlyDraw(i), now)]

FlyIndex(flyId) ==
  IF \E i \in 1..Len(flies) : flies[i].id = flyId
    THEN CHOOSE i \in 1..Len(flies) :
           flies[i].id = flyId /\ \A j \in 1..(i - 1) : flies[j].id # flyId
    ELSE 0

Splice(seq, i) == [j \in 1..(Len(seq) - 1) |-> IF j < i THEN seq[j] ELSE seq[j + 1]]

-----------------------------------------------------------------------------
(* Player objects *)

PlayerObject(sid, name, pad, ref) ==
  [id |-> sid, name |-> name, x |-> pad.x, y |-> pad.y, size |-> BaseSize,
   health |-> BaseHealth, maxHealth |-> BaseHealth, isSwimming |-> FALSE,
   lastPushTime |-> Epoch, level |-> 1, xp |-> 0, ref |-> ref]

Occupied(pad) == \E p \in DOMAIN players : players[p].x = pad.x /\ players[p].y = pad.y

UnoccupiedPads == {i \in 1..Len(lilyPads) : ~Occupied(lilyPads[i])}

(* Variant: always the first pad *)
FindFirstLilyPad == {lilyPads[1]}

FindUnoccupiedLilyPad ==
  IF UnoccupiedPads = {} THEN {lilyPads[1]} ELSE {lilyPads[i] : i \in UnoccupiedPads}

(* The object of sid leaves the registry: it stays reachable if a pending  *)
(* timer closed over it.                                                   *)
HasTimer(sid, ref) == \E t \in timers : t.id = sid /\ t.ref = ref

Detach(sid) ==
  IF sid \in DOMAIN players /\ HasTimer(sid, players[sid].ref)
    THEN {[id |-> sid, ref |-> players[sid].ref, isSwimming |-> players[sid].isSwimming]}
    ELSE {}

FreshRef(sid) ==
  CHOOSE n \in 1..(Cardinality(timers) + 1) :
    /\ ~HasTimer(sid, n)
    /\ \A m \in 1..(n - 1) : HasTimer(sid, m)

-----------------------------------------------------------------------------
Init ==
  /\ status = [c \in AllSockets |-> "new"]
  /\ players = EmptyMap
  /\ playerNames = EmptyMap
  /\ takenUsernames = {}
  /\ socketPlayerName = EmptyMap
  /\ lastAttackTime = [c \in AllSockets |-> EmptyMap]
  /\ flies = InitialFlyList
  /\ nextFlyId = InitialFlies
  /\ lilyPads = GeneratedPads
  /\ timers = {}
  /\ detached = {}
  /\ tickCount = 0

(* io.on('connection') *)
Connection(c) ==
  /\ status[c] = "new"
  /\ status' = [status EXCEPT ![c] = "open"]
  /\ UNCHANGED <<players, playerNames, takenUsernames, socketPlayerName,
                 lastAttackTime, flies, nextFlyId, lilyPads, timers, detached, tickCount>>

(* socket.on('checkName') *)
IsAvailable(name) == name \notin takenUsernames

CheckNameEvents(c, name) ==
  <<[type |-> "checkNameReply", to |-> c, isAvailable |-> IsAvailable(name)]>>

(* Variant: asking for a name reserves it *)
CheckNameReserving(c, name) ==
  /\ status[c] = "open"
  /\ takenUsernames' = takenUsernames \cup {name}
  /\ UNCHANGED <<status, players, playerNames, socketPlayerName,
                 lastAttackTime, flies, nextFlyId, lilyPads, timers, detached, tickCount>>

CheckName(c, name) ==
  /\ status[c] = "open"
  /\ UNCHANGED <<status, players, playerNames, takenUsernames, socketPlayerName,
                 lastAttackTime, flies, nextFlyId, lilyPads, timers, detached, tickCount>>

(* socket.on('disconnect'): the effects on the registry and the names *)
DisconnectPlayers(c) == IF c \in DOMAIN players THEN Remove(players, c) ELSE players

DisconnectPlayerNames(c) ==
  IF c \in DOMAIN players THEN Remove(playerNames, c) ELSE playerNames

(* if (socket.playerName): undefined and the empty string are both falsy *)
DisconnectTakenUsernames(c) ==
  IF c \in DOMAIN players /\ c \in DOMAIN socketPlayerName /\ socketPlayerName[c] # ""
    THEN takenUsernames \ {socketPlayerName[c]}
    ELSE takenUsernames

DisconnectEvents(c) ==
  IF c \in DOMAIN players THEN <<[type |-> "playerDisconnected", id |-> c]>> ELSE <<>>

DisconnectEffects(c, reason) ==
  /\ status' = [status EXCEPT ![c] = reason]
  /\ players' = DisconnectPlayers(c)
  /\ playerNames' = DisconnectPlayerNames(c)
  /\ takenUsernames' = DisconnectTakenUsernames(c)
  /\ detached' = detached \cup Detach(c)
  /\ lastAttackTime' = [lastAttackTime EXCEPT ![c] = EmptyMap]  \* the closure is garbage

Disconnect(c) ==
  /\ status[c] = "open"
  /\ DisconnectEffects(c, "closed")
  /\ UNCHANGED <<socketPlayerName, flies, nextFlyId, lilyPads,
                 timers, tickCount>>

(* Variants of the name check: without the reservation test, and with the
   length limit one character lower *)
NameRejectedByLengthOnly(playerName) == Len(playerName) > MaxNameLength

NameRejectedFromLimit(playerName) ==
  Len(playerName) >= MaxNameLength \/ playerName \in takenUsernames

(* socket.on('newPlayer') *)
NameRejected(playerName) ==
  Len(playerName) > MaxNameLength \/ playerName \in takenUsernames

JoinEvents(c, player) ==
  <<[type |-> "gameState", to |-> c],
    [type |-> "playerJoined", id |-> c, player |-> player, exceptSender |-> TRUE],
    [type |-> "playerHealthUpdate", id |-> c, health |-> player.health,
     maxHealth |-> player.maxHealth]>>

NewPlayerEvents(c, playerName, spawnPad) ==
  IF NameRejected(playerName)
    THEN DisconnectEvents(c)
    ELSE JoinEvents(c, PlayerObject(c, playerName, spawnPad, FreshRef(c)))

NewPlayer(c, playerName) ==
  /\ status[c] = "open"
  /\ IF NameRejected(playerName)
       THEN /\ DisconnectEffects(c, "kicked")
            /\ UNCHANGED <<socketPlayerName>>
       ELSE \E spawnPad \in FindUnoccupiedLilyPad :
              LET player == PlayerObject(c, playerName, spawnPad, FreshRef(c))
              IN  /\ takenUsernames' = takenUsernames \cup {playerName}
                  /\ socketPlayerName' = Put(socketPlayerName, c, playerName)
                  /\ playerNames' = Put(playerNames, c, playerName)
                  /\ players' = Put(players, c, player)
                  /\ detached' = detached \cup Detach(c)
                  /\ UNCHANGED <<status, lastAttackTime>>
  /\ UNCHANGED <<flies, nextFlyId, lilyPads, timers, tickCount>>

(* socket.on('respawn') *)
RespawnName(c) ==
  IF c \in DOMAIN players /\ players[c].name # "" THEN players[c].name
  ELSE IF c \in DOMAIN playerNames /\ playerNames[c] # "" THEN playerNames[c]
  ELSE Anonymous

RespawnEvents(c, player) ==
  <<[type |-> "playerJoined", id |-> c, player |-> player, exceptSender |-> FALSE],
    [type |-> "playerHealthUpdate", id |-> c, health |-> player.health,
     maxHealth |-> player.maxHealth]>>

Respawn(c) ==
  /\ status[c] = "open"
  /\ \E spawnPad \in FindUnoccupiedLilyPad :
       LET player == PlayerObject(c, RespawnName(c), spawnPad, FreshRef(c))
       IN  /\ players' = Put(players, c, player)
           /\ detached' = detached \cup Detach(c)
  /\ UNCHANGED <<status, playerNames, takenUsernames, socketPlayerName,
                 lastAttackTime, flies, nextFlyId, lilyPads, timers, tickCount>>

(* socket.on('tongueAttack') *)
LastAttack(c, targetId) ==
  IF targetId \in DOMAIN lastAttackTime[c] THEN lastAttackTime[c][targetId] ELSE Epoch

(* Variant: the cooldown includes its last instant *)
OnCooldownInclusive(c, targetId) == now - LastAttack(c, targetId) <= AttackCooldown

(* Variant: no cooldown at all *)
OnCooldownNever(c, targetId) == FALSE

OnCooldown(c, targetId) == now - LastAttack(c, targetId) < AttackCooldown

(* Variant: twice the damage *)
DamagedHealthDouble(health) == Max(0, health - 2 * AttackDamage)

DamagedHealth(health) == Max(0, health - AttackDamage)

AttackApplies(c, targetId) ==
  /\ c \in DOMAIN players
  /\ targetId \in DOMAIN players
  /\ ~OnCooldown(c, targetId)

(* Variant: a player at health 0 stays in the registry *)
DiesBelowZero(health) == health < 0

Dies(health) == health <= 0

AttackPlayers(targetId) ==
  LET health == DamagedHealth(players[targetId].health)
  IN  IF Dies(health)
        THEN Remove(players, targetId)
        ELSE [players EXCEPT ![targetId].health = health]

AttackEvents(targetId) ==
  LET health == DamagedHealth(players[targetId].health)
  IN  IF Dies(health)
        THEN <<[type |-> "playerDied", id |-> targetId]>>
        ELSE <<[type |-> "playerDamaged", id |-> targetId, health |-> health,
                maxHealth |-> players[targetId].maxHealth, damage |-> AttackDamage]>>

(* Variant: death also releases the name of the target *)
AttackTakenUsernamesReleasing(targetId) ==
  IF Dies(DamagedHealth(players[targetId].health))
    THEN takenUsernames \ {players[targetId].name}
    ELSE takenUsernames

(* Death deletes the target from gameState.players only *)
AttackTakenUsernames(targetId) == takenUsernames

(* Variant: a dropped attack records its time *)
DroppedAttackTimeRestarting(c, targetId) ==
  IF c \in DOMAIN players /\ targetId \in DOMAIN players
    THEN [lastAttackTime EXCEPT ![c] = Put(@, targetId, now)]
    ELSE lastAttackTime

(* The handler returns before lastAttackTime.set *)
DroppedAttackTime(c, targetId) == lastAttackTime

TongueAttackEvents(c, targetId) ==
  IF AttackApplies(c, targetId) THEN AttackEvents(targetId) ELSE <<>>

TongueAttack(c, targetId) ==
  /\ status[c] = "open"
  /\ IF AttackApplies(c, targetId)
       THEN /\ lastAttackTime' = [lastAttackTime EXCEPT ![c] = Put(@, targetId, now)]
            /\ players' = AttackPlayers(targetId)
            /\ detached' = IF targetId \in DOMAIN players'
                             THEN detached ELSE detached \cup Detach(targetId)
            /\ takenUsernames' = AttackTakenUsernames(targetId)
       ELSE /\ lastAttackTime' = DroppedAttackTime(c, targetId)
            /\ UNCHANGED <<players, detached, takenUsernames>>
  /\ UNCHANGED <<status, playerNames, socketPlayerName,
                 flies, nextFlyId, lilyPads, timers, tickCount>>

(* Variant: a level-up leaves the size as it was *)
CaughtPlayerKeepsSize(player) ==
  LET xp == player.xp + 1
      newLevel == GetLevelFromXP(xp)
  IN  IF newLevel > player.level
        THEN [player EXCEPT !.xp = xp, !.level = newLevel,
                            !.maxHealth = MaxHealthForLevel(newLevel),
                            !.health = MaxHealthForLevel(newLevel)]
        ELSE [player EXCEPT !.xp = xp]

(* Variant: every catch refills the health *)
CaughtPlayerAlwaysHeals(player) ==
  LET xp == player.xp + 1
      newLevel == GetLevelFromXP(xp)
  IN  IF newLevel > player.level
        THEN [player EXCEPT !.xp = xp, !.level = newLevel,
                            !.size = GetSizeForLevel(newLevel),
                            !.maxHealth = MaxHealthForLevel(newLevel),
                            !.health = MaxHealthForLevel(newLevel)]
        ELSE [player EXCEPT !.xp = xp, !.health = player.maxHealth]

(* Variant: a level-up refills the health without raising maxHealth *)
CaughtPlayerKeepsMaxHealth(player) ==
  LET xp == player.xp + 1
      newLevel == GetLevelFromXP(xp)
  IN  IF newLevel > player.level
        THEN [player EXCEPT !.xp = xp, !.level = newLevel,
                            !.size = GetSizeForLevel(newLevel),
                            !.health = MaxHealthForLevel(newLevel)]
        ELSE [player EXCEPT !.xp = xp]

(* socket.on('catchFly') *)
CaughtPlayer(player) ==
  LET xp == player.xp + 1
      newLevel == GetLevelFromXP(xp)
  IN  IF newLevel > player.level
        THEN [player EXCEPT !.xp = xp, !.level = newLevel,
                            !.size = GetSizeForLevel(newLevel),
                            !.maxHealth = MaxHealthForLevel(newLevel),
                            !.health = MaxHealthForLevel(newLevel)]
        ELSE [player EXCEPT !.xp = xp]

(* Variant: the caught fly is not replaced *)
CaughtFliesNoReplacement(flyIndex, newFly) == Splice(flies, flyIndex)

(* Variant: the replacement takes over the id of the caught fly *)
CaughtFliesSameId(flyIndex, newFly) ==
  Append(Splice(flies, flyIndex), [newFly EXCEPT !.id = flies[flyIndex].id])

CaughtFlies(flyIndex, newFly) == Append(Splice(flies, flyIndex), newFly)

(* Variant: the result of findIndex is not tested *)
CatchAppliesAnyFly(c, flyId) == c \in DOMAIN players

CatchApplies(c, flyId) == c \in DOMAIN players /\ FlyIndex(flyId) # 0

CatchFlyEvents(c, flyId, r) ==
  IF CatchApplies(c, flyId)
    THEN LET player == CaughtPlayer(players[c])
         IN  <<[type |-> "flyCaught", flyId |-> flyId, playerId |-> c,
                size |-> player.size, health |-> player.health,
                maxHealth |-> player.maxHealth, level |-> player.level,
                xp |-> player.xp,
                didLevelUp |-> (GetLevelFromXP(players[c].xp + 1) > players[c].level)],
               [type |-> "newFly", fly |-> GenerateFly(nextFlyId + 1, r, now)]>>
    ELSE <<>>

CatchFly(c, flyId, r) ==
  /\ status[c] = "open"
  /\ IF CatchApplies(c, flyId)
       THEN LET player == CaughtPlayer(players[c])
                newFly == GenerateFly(nextFlyId + 1, r, now)
            IN  /\ nextFlyId < InitialFlies + MaxCatches
                /\ nextFlyId' = nextFlyId + 1
                /\ flies' = CaughtFlies(FlyIndex(flyId), newFly)
                /\ players' = [players EXCEPT ![c] = player]
       ELSE UNCHANGED <<flies, nextFlyId, players>>
  /\ UNCHANGED <<status, playerNames, takenUsernames, socketPlayerName,
                 lastAttackTime, lilyPads, timers, detached, tickCount>>

(* socket.on('moveToLilyPad') *)
SocketOrder == <<"s1", "s2", "s3">>   \* stands for the insertion order of the Map

TargetPad(padId) ==
  IF \E i \in 1..Len(lilyPads) : lilyPads[i].id = padId
    THEN {lilyPads[CHOOSE i \in 1..Len(lilyPads) : lilyPads[i].id = padId]}
    ELSE {}

(* Variant: a swimming player may move *)
MoveAppliesWhileSwimming(c, padId) ==
  /\ c \in DOMAIN players
  /\ TargetPad(padId) # {}

MoveApplies(c, padId) ==
  /\ c \in DOMAIN players
  /\ ~players[c].isSwimming
  /\ TargetPad(padId) # {}

PushAllowed(otherPlayer) == now - otherPlayer.lastPushTime > PushCooldown

(* Variant: an occupant of the same size is pushed too *)
PushedNotLarger(c, targetPad) ==
  {otherId \in DOMAIN players :
     /\ otherId # c
     /\ players[otherId].x = targetPad.x
     /\ players[otherId].y = targetPad.y
     /\ players[otherId].size <= players[c].size
     /\ ~players[otherId].isSwimming
     /\ PushAllowed(players[otherId])}

Pushed(c, targetPad) ==
  {otherId \in DOMAIN players :
     /\ otherId # c
     /\ players[otherId].x = targetPad.x
     /\ players[otherId].y = targetPad.y
     /\ players[otherId].size < players[c].size
     /\ ~players[otherId].isSwimming
     /\ PushAllowed(players[otherId])}

PushEvents(c, pushed) ==
  LET ids == SelectSeq(SocketOrder, LAMBDA s : s \in pushed)
  IN  [i \in 1..Len(ids) |->
         [type |-> "playerPushed", id |-> ids[i], pushedBy |-> c,
          fromX |-> players[ids[i]].x, fromY |-> players[ids[i]].y]]

(* Variant: a pushed player drifts off the pad *)
MovedPlayersAdrift(c, targetPad, pushed) ==
  [p \in DOMAIN players |->
     IF p = c THEN [players[p] EXCEPT !.x = targetPad.x, !.y = targetPad.y]
     ELSE IF p \in pushed
       THEN [players[p] EXCEPT !.isSwimming = TRUE, !.lastPushTime = now,
                               !.x = @ + PadRadius]
     ELSE players[p]]

(* Variant: the move refills the health of the mover *)
MovedPlayersHealing(c, targetPad, pushed) ==
  [p \in DOMAIN players |->
     IF p = c THEN [players[p] EXCEPT !.x = targetPad.x, !.y = targetPad.y,
                                      !.health = players[p].maxHealth]
     ELSE IF p \in pushed
       THEN [players[p] EXCEPT !.isSwimming = TRUE, !.lastPushTime = now]
     ELSE players[p]]

MovedPlayers(c, targetPad, pushed) ==
  [p \in DOMAIN players |->
     IF p = c THEN [players[p] EXCEPT !.x = targetPad.x, !.y = targetPad.y]
     ELSE IF p \in pushed
       THEN [players[p] EXCEPT !.isSwimming = TRUE, !.lastPushTime = now]
     ELSE players[p]]

MoveEvents(c, player) ==
  <<[type |-> "playerMoved", id |-> c, x |-> player.x, y |-> player.y,
     health |-> player.health, maxHealth |-> player.maxHealth],
    [type |-> "playerHealthUpdate", id |-> c, health |-> player.health,
     maxHealth |-> player.maxHealth]>>

(* Variant: playerMoved is emitted before the pushes *)
MoveToLilyPadEventsMovedFirst(c, padId) ==
  IF MoveApplies(c, padId)
    THEN LET targetPad == CHOOSE pad \in TargetPad(padId) : TRUE
             pushed == Pushed(c, targetPad)
         IN  MoveEvents(c, MovedPlayers(c, targetPad, pushed)[c]) \o PushEvents(c, pushed)
    ELSE <<>>

MoveToLilyPadEvents(c, padId) ==
  IF MoveApplies(c, padId)
    THEN LET targetPad == CHOOSE pad \in TargetPad(padId) : TRUE
             pushed == Pushed(c, targetPad)
         IN  PushEvents(c, pushed) \o MoveEvents(c, MovedPlayers(c, targetPad, pushed)[c])
    ELSE <<>>

MoveToLilyPad(c, padId) ==
  /\ status[c] = "open"
  /\ IF MoveApplies(c, padId)
       THEN \E targetPad \in TargetPad(padId) :
              LET pushed == Pushed(c, targetPad)
              IN  /\ Cardinality(timers) + Cardinality(pushed) <= MaxTimers
                  /\ players' = MovedPlayers(c, targetPad, pushed)
                  /\ timers' = timers \cup
                       {[id |-> o, ref |-> players[o].ref, due |-> now + SwimDuration] :
                          o \in pushed}
       ELSE UNCHANGED <<players, timers>>
  /\ UNCHANGED <<status, playerNames, takenUsernames, socketPlayerName,
                 lastAttackTime, flies, nextFlyId, lilyPads, detached, tickCount>>

(* The setTimeout callback of a push.  otherPlayer is the object the       *)
(* callback closed over: the registry's, or a detached one.                *)
TimerOnRegistry(t) == t.id \in DOMAIN players /\ players[t.id].ref = t.ref

TimerObjectSwimming(t) ==
  IF TimerOnRegistry(t)
    THEN players[t.id].isSwimming
    ELSE \E d \in detached : d.id = t.id /\ d.ref = t.ref /\ d.isSwimming

TimerEvents(t) ==
  IF TimerObjectSwimming(t) THEN <<[type |-> "playerCanMove", id |-> t.id]>> ELSE <<>>

SwimTimer(t) ==
  /\ t \in timers
  /\ t.due <= now
  /\ timers' = timers \ {t}
  /\ players' = IF TimerOnRegistry(t) /\ players[t.id].isSwimming
                  THEN [players EXCEPT ![t.id].isSwimming = FALSE]
                  ELSE players
  /\ detached' = {d \in detached : HasTimer(d.id, d.ref) /\ ~(d.id = t.id /\ d.ref = t.ref)}
  /\ UNCHANGED <<status, playerNames, takenUsernames, socketPlayerName,
                 lastAttackTime, flies, nextFlyId, lilyPads, tickCount>>

(* setInterval: one simulation tick *)
CosTable == <<10, 7, 0, -7, -10, -7, 0, 7>>
Cos10(angle) == CosTable[((((angle % 360) + 22) \div 45) % 8) + 1]
Sin10(angle) == Cos10(angle - 90)
Damp(angularVelocity) == (0 - angularVelocity) \div 2

(* Variant: the bounce turns the fly but leaves it where it is *)
BounceXTurnOnly(fly) ==
  IF fly.x < FlyBouncePadding * 10 \/ fly.x > (WorldWidth - FlyBouncePadding) * 10
    THEN [fly EXCEPT !.angle = 180 - fly.angle,
                     !.angularVelocity = Damp(fly.angularVelocity)]
    ELSE fly

BounceX(fly) ==
  IF fly.x < FlyBouncePadding * 10
    THEN [fly EXCEPT !.x = FlyBouncePadding * 10, !.angle = 180 - fly.angle,
                     !.angularVelocity = Damp(fly.angularVelocity)]
  ELSE IF fly.x > (WorldWidth - FlyBouncePadding) * 10
    THEN [fly EXCEPT !.x = (WorldWidth - FlyBouncePadding) * 10, !.angle = 180 - fly.angle,
                     !.angularVelocity = Damp(fly.angularVelocity)]
  ELSE fly

BounceY(fly) ==
  IF fly.y < FlyBouncePadding * 10
    THEN [fly EXCEPT !.y = FlyBouncePadding * 10, !.angle = 0 - fly.angle,
                     !.angularVelocity = Damp(fly.angularVelocity)]
  ELSE IF fly.y > (WorldHeight - FlyBouncePadding) * 10
    THEN [fly EXCEPT !.y = (WorldHeight - FlyBouncePadding) * 10, !.angle = 0 - fly.angle,
                     !.angularVelocity = Damp(fly.angularVelocity)]
  ELSE fly

Jitter(rand) == ((rand - 500) * 2) \div 1000

TickFly(fly, r, currentTime) ==
  LET nextDirectionChange == Max(fly.nextDirectionChange - TickInterval, currentTime)
      turn == currentTime >= nextDirectionChange
      angularVelocity == IF turn THEN ((r.av - 500) * 6) \div 1000 ELSE fly.angularVelocity
      angle == fly.angle + angularVelocity
      moved == [fly EXCEPT
                  !.angularVelocity = angularVelocity,
                  !.nextDirectionChange = IF turn THEN currentTime + 2000 + r.ndc * 3
                                           ELSE nextDirectionChange,
                  !.angle = angle,
                  !.x = @ + (Cos10(angle) * fly.speed) \div 10 + Jitter(r.x),
                  !.y = @ + (Sin10(angle) * fly.speed) \div 10 + Jitter(r.y)]
  IN  BounceY(BounceX(moved))

(* Variant: the snapshot carries the whole fly objects *)
FliesUpdatedFull(list) ==
  IF Len(list) > 0 THEN <<[type |-> "fliesUpdated", flies |-> list]>> ELSE <<>>

FliesUpdated(list) ==
  IF Len(list) > 0
    THEN <<[type |-> "fliesUpdated",
            flies |-> [i \in 1..Len(list) |->
                         [id |-> list[i].id, x |-> list[i].x, y |-> list[i].y,
                          angle |-> list[i].angle]]]>>
    ELSE <<>>

TickedFlies(draws) == [i \in 1..Len(flies) |-> TickFly(flies[i], draws[i], now)]

TickEvents(draws) == FliesUpdated(TickedFlies(draws))

Tick(draws) ==
  /\ tickCount < MaxTicks
  /\ tickCount' = tickCount + 1
  /\ flies' = TickedFlies(draws)
  /\ UNCHANGED <<status, players, playerNames, takenUsernames, socketPlayerName,
                 lastAttackTime, nextFlyId, lilyPads, timers, detached>>

(* Time passes.  A timer fires when it is due: time does not pass it by.   *)
(* An attack time older than the cooldown reads like a missing entry and   *)
(* is dropped.                                                             *)
(* Time passes by step; attack times are kept while younger than horizon,  *)
(* which is at least the cooldown.                                         *)
EarlierAttacksBy(map, step, horizon) ==
  LET kept == {k \in DOMAIN map : now - EarlierBy(map[k], step, Epoch) < horizon}
  IN  [k \in kept |-> EarlierBy(map[k], step, Epoch)]

EarlierAttacks(map) == EarlierAttacksBy(map, TimeStep, AttackCooldown)

EarlierPlayerBy(player, step) ==
  [player EXCEPT !.lastPushTime = EarlierBy(@, step, Epoch)]

EarlierPlayer(player) == EarlierPlayerBy(player, TimeStep)

AdvanceBy(step, horizon) ==
  /\ \A t \in timers : t.due > now
  /\ timers' = {[t EXCEPT !.due = @ - step] : t \in timers}
  /\ lastAttackTime' =
       [c \in DOMAIN lastAttackTime |-> EarlierAttacksBy(lastAttackTime[c], step, horizon)]
  /\ players' = [p \in DOMAIN players |-> EarlierPlayerBy(players[p], step)]
  /\ UNCHANGED <<status, playerNames, takenUsernames, socketPlayerName,
                 flies, nextFlyId, lilyPads, detached, tickCount>>

Advance == AdvanceBy(TimeStep, AttackCooldown)

-----------------------------------------------------------------------------
(* The inputs of a run.  Every specification takes the handlers' inputs     *)
(* from small sets: which sockets connect, which of them catch flies       *)
(* (Hunters) and which ids are named as attack targets (Victims).          *)

Sockets == {"s1", "s2"}
Names == {"", Name16, Name17}
Hunters == {"s2"}
Victims == {"s2"}
FlyIdInputs == {flies[Len(flies)].id, "fly-unknown"}
SameDraw(r) == [i \in 1..Len(flies) |-> r]

(* The game: every handler and the swim timers, two connections. *)
Next ==
  \/ \E c \in Sockets : Connection(c)
  \/ \E c \in Sockets, name \in {Name16, Name17} : CheckName(c, name)
  \/ \E c \in Sockets, name \in {Name16, Name17} : NewPlayer(c, name)
  \/ \E c \in Sockets : Respawn(c)
  \/ \E c \in Sockets, padId \in PadIds : MoveToLilyPad(c, padId)
  \/ \E c \in Sockets, targetId \in Victims : TongueAttack(c, targetId)
  \/ \E c \in Hunters, flyId \in FlyIdInputs : CatchFly(c, flyId, MidDraw)
  \/ \E c \in Sockets : Disconnect(c)
  \/ \E t \in timers : SwimTimer(t)
  \/ Tick(SameDraw(MidDraw))
  \/ Advance

Spec == Init /\ [][Next]_vars

(* Names: joins, respawns, deaths and disconnects, every name and target. *)
NextNames ==
  \/ \E c \in Sockets : Connection(c)
  \/ \E c \in Sockets, name \in Names : CheckName(c, name)
  \/ \E c \in Sockets, name \in Names : NewPlayer(c, name)
  \/ \E c \in Sockets : Respawn(c)
  \/ \E c \in Sockets, targetId \in Sockets : TongueAttack(c, targetId)
  \/ \E c \in Sockets : Disconnect(c)
  \/ Advance

SpecNames == Init /\ [][NextNames]_vars

(* Combat: three connections attack one target. *)
NextCombat ==
  \/ \E c \in AllSockets : Connection(c)
  \/ \E c \in AllSockets : NewPlayer(c, "frog-" \o c)
  \/ \E c \in Victims : Respawn(c)
  \/ \E c \in AllSockets, targetId \in Victims : TongueAttack(c, targetId)
  \/ \E c \in Sockets, flyId \in FlyIdInputs : CatchFly(c, flyId, MidDraw)
  \/ \E c \in Victims : Disconnect(c)
  \/ Advance

SpecCombat == Init /\ [][NextCombat]_vars

(* Cooldown: two connections attack one target; time passes in steps of   *)
(* half the cooldown and an attack time is kept until it is older than    *)
(* the cooldown.                                                           *)
NextCooldown ==
  \/ \E c \in Sockets : Connection(c)
  \/ \E c \in Sockets : NewPlayer(c, "frog-" \o c)
  \/ \E c \in Victims : Respawn(c)
  \/ \E c \in Sockets, targetId \in Victims : TongueAttack(c, targetId)
  \/ AdvanceBy(HalfStep, AttackCooldown + HalfStep)

SpecCooldown == Init /\ [][NextCooldown]_vars

(* Flies: one connection, the ticks and every handler. *)
NextFlies ==
  \/ \E c \in {"s1"} : Connection(c)
  \/ \E c \in {"s1"} : NewPlayer(c, Name16)
  \/ \E c \in {"s1"} : Respawn(c)
  \/ \E c \in {"s1"}, padId \in PadIds : MoveToLilyPad(c, padId)
  \/ \E c \in {"s1"}, targetId \in Sockets : TongueAttack(c, targetId)
  \/ \E c \in {"s1"}, flyId \in {flies[1].id, "fly-unknown", FlyId(1)} :
       CatchFly(c, flyId, HighDraw)
  \/ \E c \in {"s1"} : Disconnect(c)
  \/ \E r \in {LowDraw, HighDraw} : Tick(SameDraw(r))
  \/ Advance

SpecFlies == Init /\ [][NextFlies]_vars

(* Progression: the run starts when one connection has joined and caught  *)
(* any number of flies up to MaxXp (the flies are numbered afresh), which  *)
(* has left it the xp, and the level, size and health of its last          *)
(* level-up; it goes on with catches, attacks on itself and respawns.      *)
PlayerAfterCatches(player, n) ==
  [player EXCEPT !.xp = n, !.level = GetLevelFromXP(n),
                 !.size = GetSizeForLevel(GetLevelFromXP(n)),
                 !.maxHealth = MaxHealthForLevel(GetLevelFromXP(n)),
                 !.health = IF GetLevelFromXP(n) > 1
                              THEN MaxHealthForLevel(GetLevelFromXP(n)) ELSE @]

InitLevels ==
  /\ status = [c \in AllSockets |-> IF c = "s1" THEN "open" ELSE "new"]
  /\ playerNames = [c \in {"s1"} |-> Name16]
  /\ takenUsernames = {Name16}
  /\ socketPlayerName = [c \in {"s1"} |-> Name16]
  /\ lastAttackTime = [c \in AllSockets |-> EmptyMap]
  /\ flies = InitialFlyList
  /\ nextFlyId = InitialFlies
  /\ lilyPads = GeneratedPads
  /\ timers = {}
  /\ detached = {}
  /\ tickCount = 0
  /\ \E n \in 0..MaxXp :
       players = [c \in {"s1"} |->
                    PlayerAfterCatches(PlayerObject("s1", Name16, GeneratedPads[1], 1), n)]

NextLevels ==
  \/ \E flyId \in FlyIdInputs : CatchFly("s1", flyId, MidDraw)
  \/ TongueAttack("s1", "s1")
  \/ Respawn("s1")
  \/ Advance

SpecLevels == InitLevels /\ [][NextLevels]_vars

(* World generation: every pad list generateLilyPads returns under the    *)
(* draws above, and one connection that joins and moves on it.             *)
InitWorld ==
  /\ status = [c \in AllSockets |-> "new"]
  /\ players = EmptyMap
  /\ playerNames = EmptyMap
  /\ takenUsernames = {}
  /\ socketPlayerName = EmptyMap
  /\ lastAttackTime = [c \in AllSockets |-> EmptyMap]
  /\ flies = InitialFlyList
  /\ nextFlyId = InitialFlies
  /\ lilyPads \in GenerateLilyPads
  /\ timers = {}
  /\ detached = {}
  /\ tickCount = 0

NextWorld ==
  \/ Connection("s1")
  \/ NewPlayer("s1", Name16)
  \/ \E i \in 1..Len(lilyPads) : MoveToLilyPad("s1", lilyPads[i].id)

SpecWorld == InitWorld /\ [][NextWorld]_vars

(* World generation at the edge: the pad lists of the runs that draw pads *)
(* in the edge cells only.                                                 *)
InitEdges ==
  /\ status = [c \in AllSockets |-> "new"]
  /\ players = EmptyMap
  /\ playerNames = EmptyMap
  /\ takenUsernames = {}
  /\ socketPlayerName = EmptyMap
  /\ lastAttackTime = [c \in AllSockets |-> EmptyMap]
  /\ flies = InitialFlyList
  /\ nextFlyId = InitialFlies
  /\ lilyPads \in GenerateLilyPadsAtEdge
  /\ timers = {}
  /\ detached = {}
  /\ tickCount = 0

SpecEdges == InitEdges /\ [][NextWorld]_vars

(* Catch: two connections send catchFly for the same few fly ids, two of   *)
(* the first flies and the first replacement.                              *)
CatchIds == {FlyId(1), FlyId(2), FlyId(InitialFlies + 1)}

NextCatch ==
  \/ \E c \in Sockets : Connection(c)
  \/ \E c \in Sockets : NewPlayer(c, "frog-" \o c)
  \/ \E c \in Sockets, flyId \in CatchIds : CatchFly(c, flyId, MidDraw)

SpecCatch == Init /\ [][NextCatch]_vars

(* Bounce: the flies start where earlier ticks can have brought them, on  *)
(* or near the margin or in the middle, all with the same heading; one     *)
(* connection joins and catches.                                           *)
EdgeX ==
  {FlyBouncePadding * 10, FlyBouncePadding * 10 + 5, (WorldWidth \div 2) * 10,
   (WorldWidth - FlyBouncePadding) * 10 - 5, (WorldWidth - FlyBouncePadding) * 10}
EdgeY ==
  {FlyBouncePadding * 10, FlyBouncePadding * 10 + 5, (WorldHeight \div 2) * 10,
   (WorldHeight - FlyBouncePadding) * 10 - 5, (WorldHeight - FlyBouncePadding) * 10}
Headings == {0, 90, 180, 270}

InitBounce ==
  /\ status = [c \in AllSockets |-> "new"]
  /\ players = EmptyMap
  /\ playerNames = EmptyMap
  /\ takenUsernames = {}
  /\ socketPlayerName = EmptyMap
  /\ lastAttackTime = [c \in AllSockets |-> EmptyMap]
  /\ \E x \in EdgeX, y \in EdgeY, angle \in Headings :
       flies = [i \in 1..InitialFlies |->
                  [InitialFlyList[i] EXCEPT !.x = x, !.y = y, !.angle = angle]]
  /\ nextFlyId = InitialFlies
  /\ lilyPads = GeneratedPads
  /\ timers = {}
  /\ detached = {}
  /\ tickCount = 0

NextBounce ==
  \/ Connection("s1")
  \/ NewPlayer("s1", Name16)
  \/ \E r \in {LowDraw, HighDraw} : CatchFly("s1", flies[1].id, r)
  \/ \E r \in {LowDraw, HighDraw} : Tick(SameDraw(r))

SpecBounce == InitBounce /\ [][NextBounce]_vars

(***************************************************************************)
(* Properties                                                              *)
(***************************************************************************)
Joined(c) == c \in DOMAIN socketPlayerName
Alive(c) == c \in DOMAIN players
Dead(c) == status[c] = "open" /\ Joined(c) /\ ~Alive(c)

(* C1: every player in the registry has 0 <= health <= maxHealth, whatever
   joins, respawns, moves, pushes, attacks, catches, disconnects and timer
   firings have happened. *)
C1_HealthWithinBounds ==
  \A id \in DOMAIN players :
    0 <= players[id].health /\ players[id].health <= players[id].maxHealth

(* a player that levelled up (maxHealth raised) and was then damaged *)
C1_Witness ==
  \E id \in DOMAIN players :
    /\ players[id].level > 1
    /\ players[id].maxHealth > BaseHealth
    /\ players[id].health < players[id].maxHealth

(* C2: no two players in the registry have the same name. *)
C2_UniqueNames ==
  \A a, b \in DOMAIN players : a # b => players[a].name # players[b].name

(* C3: a newPlayer request whose name is reserved is rejected: the caller is
   disconnected by the server, no player exists for it afterwards and no name
   is added; hence no two open connections hold a join with the same name. *)
C3_ReservedNameRejected ==
  /\ [][\A c \in AllSockets, name \in Names :
         (NewPlayer(c, name) /\ name \in takenUsernames)
           => /\ status'[c] = "kicked"
              /\ c \notin DOMAIN players'
              /\ takenUsernames' \subseteq takenUsernames]_vars
  /\ [](\A a, b \in AllSockets :
          (a # b /\ status[a] = "open" /\ status[b] = "open" /\ Joined(a) /\ Joined(b))
            => socketPlayerName[a] # socketPlayerName[b])

(* one connection holds the name, another one that never joined was kicked
   while the name is still reserved *)
C3_Witness ==
  \E a, b \in AllSockets :
    /\ Alive(a) /\ status[a] = "open" /\ players[a].name = Name16
    /\ Name16 \in takenUsernames
    /\ status[b] = "kicked" /\ ~Joined(b)

(* C4: a newPlayer request with a name longer than 16 characters is rejected
   (caller disconnected, no player, no name reserved); one with a name of at
   most 16 characters that is not reserved is accepted: a level-1 player with
   that name exists for the caller and the name is reserved. *)
C4_NameLengthLimit ==
  [][\A c \in AllSockets, name \in Names :
       NewPlayer(c, name)
         => /\ Len(name) > 16
                 => /\ status'[c] = "kicked"
                    /\ c \notin DOMAIN players'
                    /\ takenUsernames' \subseteq takenUsernames
            /\ (Len(name) <= 16 /\ name \notin takenUsernames)
                 => /\ status'[c] = "open"
                    /\ c \in DOMAIN players'
                    /\ players'[c].name = name
                    /\ players'[c].level = 1
                    /\ name \in takenUsernames']_vars

(* a join with exactly 16 characters succeeded, and the only connection that
   ever joined is that one, so the kicked one asked for 17 characters or
   for the reserved name *)
C4_Witness ==
  \E a, b \in AllSockets :
    /\ Alive(a) /\ Len(players[a].name) = 16 /\ players[a].level = 1
    /\ players[a].name \in takenUsernames
    /\ status[b] = "kicked" /\ ~Joined(b)
    /\ takenUsernames = {players[a].name}

(* C5: when a connection that joined with a name disconnects, the name is no
   longer reserved afterwards, also if its player had been killed. *)
C5_DisconnectReleasesName ==
  [][\A c \in AllSockets :
       (Disconnect(c) /\ Joined(c)) => socketPlayerName[c] \notin takenUsernames']_vars

(* C6: while the connection of a killed player stays open its name stays
   reserved: checkName answers false for it and a newPlayer with it is
   rejected. *)
C6_DeathKeepsName ==
  \A c \in AllSockets :
    Dead(c) => /\ socketPlayerName[c] \in takenUsernames
               /\ ~IsAvailable(socketPlayerName[c])
               /\ NameRejected(socketPlayerName[c])

(* a killed player on an open connection, next to another open connection *)
C6_Witness ==
  \E c, d \in AllSockets :
    /\ c # d /\ Dead(c) /\ status[d] = "open"
    /\ socketPlayerName[c] = Name16

(* an attack of connection c on targetId was applied less than 500 ms ago *)
RecentAttack(c, targetId) ==
  targetId \in DOMAIN lastAttackTime[c] /\ now - lastAttackTime[c][targetId] < 500

(* the registry after an applied attack on targetId: the target has 10 health
   less, or is gone when that leaves it none *)
Hit(targetId) ==
  IF players[targetId].health - 10 > 0
    THEN /\ targetId \in DOMAIN players'
         /\ players'[targetId] = [players[targetId] EXCEPT !.health = @ - 10]
    ELSE targetId \notin DOMAIN players'

(* C7 as stated: an attack on a target that any connection has hit less than
   500 ms ago changes nothing. *)
C7_CooldownAcrossConnections ==
  [][\A c \in AllSockets, targetId \in Victims :
       (TongueAttack(c, targetId) /\ \E d \in AllSockets : RecentAttack(d, targetId))
         => players' = players]_vars

(* C7: the cooldown is per attacking connection and target id.  An attack on
   a target that the same connection has hit less than 500 ms ago changes
   nothing; any other attack between two players in the registry is applied
   and takes exactly 10 health, also when another connection has hit the same
   target less than 500 ms ago. *)
C7_CooldownPerConnection ==
  [][\A c \in AllSockets, targetId \in Victims :
       TongueAttack(c, targetId)
         => /\ RecentAttack(c, targetId)
                 => players' = players /\ lastAttackTime' = lastAttackTime
            /\ (Alive(c) /\ Alive(targetId) /\ ~RecentAttack(c, targetId))
                 => Hit(targetId) /\ RecentAttack(c, targetId)']_vars

(* two connections have hit the same target at the same instant and the
   target has lost 20 health *)
C7_Witness ==
  \E c, d \in AllSockets, targetId \in Victims :
    /\ c # d
    /\ RecentAttack(c, targetId) /\ lastAttackTime[c][targetId] = now
    /\ RecentAttack(d, targetId) /\ lastAttackTime[d][targetId] = now
    /\ Alive(targetId)
    /\ players[targetId].health = players[targetId].maxHealth - 20

(* C8 as stated: an applied attack takes 10 health from the target and
   changes neither the attacker nor any third player. *)
C8_AttackerUnchanged ==
  [][\A c \in AllSockets, targetId \in Victims :
       (TongueAttack(c, targetId) /\ AttackApplies(c, targetId))
         => /\ c \in DOMAIN players' /\ players'[c] = players[c]
            /\ \A p \in DOMAIN players \ {c, targetId} :
                 p \in DOMAIN players' /\ players'[p] = players[p]]_vars

(* C8: an applied attack sets the health of the target to max(0, health - 10)
   whatever the sizes, levels and healths of attacker and target are, and
   changes no player other than the target (the attacker is the target when
   it names its own id). *)
C8_DamageOnlyTarget ==
  [][\A c \in AllSockets, targetId \in Victims :
       (TongueAttack(c, targetId) /\ AttackApplies(c, targetId))
         => /\ Hit(targetId)
            /\ \A p \in DOMAIN players \ {targetId} :
                 p \in DOMAIN players' /\ players'[p] = players[p]]_vars

(* a level-2 attacker has just hit a level-1 target, a third player is in
   the registry *)
C8_Witness ==
  \E c, p \in AllSockets, targetId \in Victims :
    /\ c # targetId /\ p \notin {c, targetId}
    /\ Alive(c) /\ Alive(p) /\ Alive(targetId)
    /\ players[c].level = 2 /\ players[targetId].level = 1
    /\ RecentAttack(c, targetId) /\ lastAttackTime[c][targetId] = now
    /\ players[targetId].health = players[targetId].maxHealth - 10

(* C9: an applied attack that leaves the target no health removes it from the
   registry and broadcasts exactly one playerDied for it and nothing else;
   one that leaves it some health keeps it in the registry and broadcasts
   exactly one playerDamaged with the new health. *)
C9_DeathOrDamage ==
  [][\A c \in AllSockets, targetId \in Victims :
       (TongueAttack(c, targetId) /\ AttackApplies(c, targetId))
         => LET health == players[targetId].health - 10
                events == TongueAttackEvents(c, targetId)
            IN  /\ Len(events) = 1
                /\ events[1].id = targetId
                /\ IF health <= 0
                     THEN /\ targetId \notin DOMAIN players'
                          /\ events[1].type = "playerDied"
                     ELSE /\ targetId \in DOMAIN players'
                          /\ players'[targetId].health = health
                          /\ events[1].type = "playerDamaged"
                          /\ events[1].health = health]_vars

(* a killed target on an open connection while its attacker is still there *)
C9_Witness ==
  \E c \in AllSockets, targetId \in Victims :
    /\ c # targetId /\ Alive(c) /\ RecentAttack(c, targetId)
    /\ status[targetId] = "open" /\ targetId \in DOMAIN playerNames
    /\ ~Alive(targetId)

FlyIds == {flies[i].id : i \in 1..Len(flies)}

(* C10: there are always exactly 10 flies, with distinct ids; a successful
   catchFly removes exactly the fly with the given id and adds exactly one
   fly with a new id; every other step leaves the set of fly ids alone. *)
C10_FlyPopulation ==
  /\ [](Len(flies) = 10 /\ Cardinality(FlyIds) = 10)
  /\ [][\/ FlyIds' = FlyIds
        \/ \E c \in AllSockets, flyId \in FlyIds, r \in {LowDraw, MidDraw, HighDraw} :
             /\ CatchFly(c, flyId, r) /\ CatchApplies(c, flyId)
             /\ FlyIds' \ FlyIds = {FlyId(nextFlyId')}
             /\ FlyIds \ FlyIds' = {flyId}]_vars

(* flies have been caught and replaced, and the flies have moved *)
C10_Witness ==
  /\ nextFlyId > InitialFlies + 1
  /\ tickCount > 0
  /\ FlyId(1) \notin FlyIds
  /\ Len(flies) = 10

(* the flyCaught event of a successful catch *)
FlyCaught(c, flyId, r) == CatchFlyEvents(c, flyId, r)[1]

(* C11: a successful catchFly raises the xp of the catcher by exactly 1 and
   flyCaught carries the new xp; for a level-1 player with fewer than 4 xp
   it reports didLevelUp = false and level 1, and for one with 4 xp it
   reports didLevelUp = true, level 2, maxHealth 60 and health 60. *)
C11_CatchXp ==
  [][\A c \in Sockets, flyId \in FlyIdInputs :
       (CatchFly(c, flyId, MidDraw) /\ CatchApplies(c, flyId))
         => LET caught == FlyCaught(c, flyId, MidDraw)
            IN  /\ players'[c].xp = players[c].xp + 1
                /\ caught.type = "flyCaught" /\ caught.playerId = c
                /\ caught.xp = players[c].xp + 1
                /\ players[c].xp < 4
                     => /\ caught.didLevelUp = FALSE /\ caught.level = 1
                        /\ players'[c].level = 1
                /\ players[c].xp = 4
                     => /\ caught.didLevelUp = TRUE /\ caught.level = 2
                        /\ caught.maxHealth = 60 /\ caught.health = 60
                        /\ players'[c].level = 2]_vars

(* a player after its fifth catch *)
C11_Witness ==
  \E c \in DOMAIN players :
    /\ players[c].xp = 5 /\ players[c].level = 2
    /\ players[c].health = 60 /\ players[c].maxHealth = 60

(* C12: a catch that raises the level sets the health of the catcher to its
   new maxHealth whatever its health was; a catch that does not raise the
   level leaves its health, maxHealth, size and level as they were. *)
C12_HealOnlyOnLevelUp ==
  [][\A c \in Sockets, flyId \in FlyIdInputs :
       (CatchFly(c, flyId, MidDraw) /\ CatchApplies(c, flyId))
         => IF players'[c].level > players[c].level
              THEN /\ players'[c].maxHealth > players[c].maxHealth
                   /\ players'[c].health = players'[c].maxHealth
              ELSE /\ players'[c].health = players[c].health
                   /\ players'[c].maxHealth = players[c].maxHealth
                   /\ players'[c].size = players[c].size
                   /\ players'[c].level = players[c].level]_vars

(* a player that was hit at this instant and has caught a fly since its
   last level: damaged, not healed *)
C12_Witness ==
  \E c \in AllSockets, targetId \in DOMAIN players :
    /\ RecentAttack(c, targetId) /\ lastAttackTime[c][targetId] = now
    /\ players[targetId].health < players[targetId].maxHealth
    /\ players[targetId].xp \in {1, 2, 3, 4, 6}

(* the xp required for the levels 1..level together: the sum of 3*l + 2 *)
RECURSIVE Cumulative(_)
Cumulative(level) ==
  IF level <= 0 THEN 0 ELSE Cumulative(level - 1) + 3 * level + 2

Smallest(S) == CHOOSE a \in S : \A b \in S : a <= b

(* C13 as stated: the level for xp is the smallest level L in 1..10 for which
   the xp required for the levels 1..L-1 together exceeds xp, and 10 when
   there is none. *)
C13_LevelBelowCumulative ==
  \A id \in DOMAIN players :
    LET xp == players[id].xp
        levels == {L \in 1..10 : Cumulative(L - 1) > xp}
    IN  GetLevelFromXP(xp) = IF levels = {} THEN 10 ELSE Smallest(levels)

(* C13: the level for xp is the smallest level L in 1..10 for which the xp
   required for the levels 1..L together (the sum of 3*l + 2 for l in 1..L)
   exceeds xp, and 10 when there is none. *)
C13_LevelFromCumulative ==
  \A id \in DOMAIN players :
    LET xp == players[id].xp
        levels == {L \in 1..10 : Cumulative(L) > xp}
    IN  GetLevelFromXP(xp) = IF levels = {} THEN 10 ELSE Smallest(levels)

(* a catch has brought a player to exactly the xp of a level: 24 xp, level 4 *)
C13_Witness ==
  \E id \in DOMAIN players :
    /\ nextFlyId > InitialFlies
    /\ players[id].xp = 24 /\ players[id].level = 4

(* C14: the level for a player's xp is in 1..10 and is 10 from 153 xp on; a
   catch never lowers the level; a level-10 player that catches a fly gains
   1 xp and keeps its level, size and maxHealth. *)
C14_LevelMonotoneAndCapped ==
  /\ [](\A id \in DOMAIN players :
          /\ GetLevelFromXP(players[id].xp) \in 1..10
          /\ players[id].xp >= 153 => GetLevelFromXP(players[id].xp) = 10)
  /\ [][\A c \in Sockets, flyId \in FlyIdInputs :
         (CatchFly(c, flyId, MidDraw) /\ CatchApplies(c, flyId))
           => /\ GetLevelFromXP(players'[c].xp) >= GetLevelFromXP(players[c].xp)
              /\ players'[c].level >= players[c].level
              /\ players[c].level = 10
                   => /\ players'[c].xp = players[c].xp + 1
                      /\ players'[c].level = 10
                      /\ players'[c].size = players[c].size
                      /\ players'[c].maxHealth = players[c].maxHealth]_vars

(* a level-10 player has caught flies beyond every requirement *)
C14_Witness ==
  \E id \in DOMAIN players :
    /\ nextFlyId > InitialFlies + 1
    /\ players[id].xp > Cumulative(10) /\ players[id].level = 10

(* C15: every player in the registry has a level in 1..10 that is the level
   for its xp, maxHealth 50 + (level-1)*10 and size 0.7 + (level-1)*0.05
   (70 + (level-1)*5 hundredths); neither formula decreases with the level. *)
C15_StatsFollowLevel ==
  /\ \A id \in DOMAIN players :
       /\ players[id].level \in 1..10
       /\ players[id].level = GetLevelFromXP(players[id].xp)
       /\ players[id].maxHealth = 50 + (players[id].level - 1) * 10
       /\ players[id].size = 70 + (players[id].level - 1) * 5
  /\ \A L \in 1..9 :
       /\ MaxHealthForLevel(L) <= MaxHealthForLevel(L + 1)
       /\ GetSizeForLevel(L) <= GetSizeForLevel(L + 1)

(* a catch has just raised a player to a new level *)
C15_Witness ==
  \E id \in DOMAIN players :
    /\ nextFlyId > InitialFlies
    /\ players[id].xp > 5
    /\ players[id].level > GetLevelFromXP(players[id].xp - 1)

KnownPad(padId) == \E i \in 1..Len(lilyPads) : lilyPads[i].id = padId

(* C16: moveToLilyPad changes no player, pad or timer and emits nothing when
   the caller has no player in the registry, when its player is swimming or
   when no pad has the given id. *)
C16_MoveNoOp ==
  [][\A c \in Sockets, padId \in PadIds :
       ((c \notin DOMAIN players \/ players[c].isSwimming \/ ~KnownPad(padId))
          /\ MoveToLilyPad(c, padId))
         => /\ players' = players
            /\ timers' = timers
            /\ lilyPads' = lilyPads
            /\ MoveToLilyPadEvents(c, padId) = <<>>]_vars

(* a swimming player on an open connection, and a player-less open one *)
C16_Witness ==
  \E c, d \in Sockets :
    /\ status[c] = "open" /\ Alive(c) /\ players[c].isSwimming
    /\ status[d] = "open" /\ ~Alive(d)

(* the players that a step pushes: not swimming before, swimming after *)
PushedInStep ==
  {o \in DOMAIN players \cap DOMAIN players' :
     ~players[o].isSwimming /\ players'[o].isSwimming}

(* a push of id less than a second ago: its timer has not fired yet *)
PushedWithinSecond(id) == \E t \in timers : t.id = id /\ t.due > now

(* C17: a move onto a pad pushes every strictly smaller occupant that is not
   swimming and was not pushed in the last 2 seconds into swimming; every
   moveToLilyPad of a player id pushed less than a second ago is ignored;
   when the timer of the push fires the player is no longer swimming. *)
C17_SwimmingForOneSecond ==
  [][/\ \A c \in Sockets, padId \in PadIds :
         (Alive(c) /\ ~players[c].isSwimming /\ KnownPad(padId) /\ MoveToLilyPad(c, padId))
           => \A o \in DOMAIN players \ {c} :
                (/\ players[o].x = players'[c].x /\ players[o].y = players'[c].y
                 /\ players[o].size < players[c].size
                 /\ ~players[o].isSwimming
                 /\ now - players[o].lastPushTime > 2000)
                  => players'[o].isSwimming
     /\ \A c \in Sockets, padId \in PadIds :
         (PushedWithinSecond(c) /\ Alive(c) /\ MoveToLilyPad(c, padId))
           => players'[c] = players[c]
     /\ \A t \in timers :
         (SwimTimer(t) /\ t.id \in DOMAIN players /\ ~PushedWithinSecond(t.id))
           => ~players'[t.id].isSwimming]_vars

(* C18: a player id that was pushed is not pushed again by a move handled
   less than 2 seconds later, whatever happened to the player in between
   (stated for the pushes whose timer is still pending or has just come due,
   which are at most 1 second old). *)
C18_PushSuppression ==
  [][\A c \in Sockets, padId \in PadIds :
       MoveToLilyPad(c, padId)
         => \A o \in PushedInStep : ~\E t \in timers : t.id = o]_vars

(* C19: a successful move puts the mover on the coordinates of the pad and
   leaves everything else of the mover (health, maxHealth, xp, level, size,
   name) as it was; it broadcasts exactly one playerMoved, with the new
   coordinates and the unchanged health and maxHealth. *)
C19_MoveFrame ==
  [][\A c \in Sockets, padId \in PadIds :
       (Alive(c) /\ ~players[c].isSwimming /\ KnownPad(padId) /\ MoveToLilyPad(c, padId))
         => \E i \in 1..Len(lilyPads) :
              LET events == MoveToLilyPadEvents(c, padId)
                  moved == SelectSeq(events, LAMBDA e : e.type = "playerMoved")
              IN  /\ lilyPads[i].id = padId
                  /\ players'[c] = [players[c] EXCEPT !.x = lilyPads[i].x,
                                                      !.y = lilyPads[i].y]
                  /\ Len(moved) = 1
                  /\ moved[1].id = c
                  /\ moved[1].x = lilyPads[i].x /\ moved[1].y = lilyPads[i].y
                  /\ moved[1].health = players[c].health
                  /\ moved[1].maxHealth = players[c].maxHealth]_vars

(* a damaged level-2 player stands where it has pushed a smaller player
   at this instant *)
C19_Witness ==
  \E c \in DOMAIN players, t \in timers :
    /\ t.due = now + SwimDuration /\ TimerOnRegistry(t) /\ t.id # c
    /\ players[c].x = players[t.id].x /\ players[c].y = players[t.id].y
    /\ ~players[c].isSwimming
    /\ players[c].level = 2 /\ players[c].xp = 5
    /\ players[c].health < players[c].maxHealth

(* C20: a respawn of a connection that has joined leaves it a player in the
   registry with level 1, xp 0, health 50, maxHealth 50, size 0.7, not
   swimming, under the name it joined with. *)
C20_RespawnResets ==
  [][\A c \in Sockets :
       (Joined(c) /\ Respawn(c))
         => /\ c \in DOMAIN players'
            /\ players'[c].level = 1 /\ players'[c].xp = 0
            /\ players'[c].health = 50 /\ players'[c].maxHealth = 50
            /\ players'[c].size = 70
            /\ ~players'[c].isSwimming
            /\ players'[c].name = socketPlayerName[c]]_vars

(* the pads whose coordinates no player in the registry has *)
FreePads ==
  {i \in 1..Len(lilyPads) :
     \A p \in DOMAIN players :
       players[p].x # lilyPads[i].x \/ players[p].y # lilyPads[i].y}

OnPad(player, pad) == player.x = pad.x /\ player.y = pad.y

(* C21: an accepted join and a respawn put the player on a pad that no
   player in the registry had, when there is one, so that no other player
   has its coordinates afterwards; when every pad is occupied they put it on
   the first generated pad, the centre spawn pad, and still succeed. *)
C21_PadSelection ==
  [][\A c \in AllSockets :
       (status[c] = "open"
          /\ (Respawn(c) \/ (~NameRejected("frog-" \o c) /\ NewPlayer(c, "frog-" \o c))))
         => /\ c \in DOMAIN players'
            /\ IF FreePads # {}
                 THEN /\ \E i \in FreePads : OnPad(players'[c], lilyPads[i])
                      /\ \A p \in DOMAIN players' \ {c} :
                           ~OnPad(players'[p], players'[c])
                 ELSE /\ OnPad(players'[c], lilyPads[1])
                      /\ lilyPads[1].isSpawnPoint
                      /\ lilyPads[1].x = WorldWidth \div 2
                      /\ lilyPads[1].y = WorldHeight \div 2]_vars

(* three players on two pads: two of them share the centre pad *)
C21_Witness ==
  \E a, b, c \in DOMAIN players :
    /\ a # b /\ a # c /\ b # c
    /\ OnPad(players[a], lilyPads[1]) /\ OnPad(players[b], lilyPads[1])
    /\ OnPad(players[c], lilyPads[2])

(* C22: the timer of a pushed player that has left the registry changes no
   player and emits nothing when it fires. *)
C22_TimerOfRemovedPlayer ==
  [][\A t \in timers :
       (t.id \notin DOMAIN players /\ SwimTimer(t))
         => players' = players /\ TimerEvents(t) = <<>>]_vars

(* C23: a tongueAttack whose caller or target has no player, and a catchFly
   whose caller has no player or whose fly id is not in the population,
   change no player, fly, name or attack time and emit nothing. *)
C23_UnknownReferenceNoOp ==
  [][/\ \A c \in AllSockets, targetId \in Victims :
          ((~Alive(c) \/ ~Alive(targetId)) /\ TongueAttack(c, targetId))
            => /\ UNCHANGED <<players, flies, takenUsernames, playerNames, lastAttackTime>>
               /\ TongueAttackEvents(c, targetId) = <<>>
     /\ \A c \in Sockets, flyId \in FlyIdInputs :
          ((~Alive(c) \/ flyId \notin FlyIds) /\ CatchFly(c, flyId, MidDraw))
            => /\ UNCHANGED <<players, flies, takenUsernames, playerNames, lastAttackTime>>
               /\ CatchFlyEvents(c, flyId, MidDraw) = <<>>]_vars

(* an open connection without a player next to a player, and a killed
   target on an open connection *)
C23_Witness ==
  \E c, d \in AllSockets, targetId \in Victims :
    /\ status[c] = "open" /\ ~Alive(c)
    /\ Alive(d) /\ d # targetId
    /\ Dead(targetId)

(* C24: an attack less than 500 ms after the last applied hit of the same
   connection on the same target changes no player, emits nothing and leaves
   the recorded time of that hit as it was; in every state an attack handled
   500 ms or more after that hit is one that is applied. *)
C24_DroppedAttackKeepsWindow ==
  /\ [](\A c \in Sockets, targetId \in Victims :
          (status[c] = "open" /\ Alive(c) /\ Alive(targetId))
            => IF /\ targetId \in DOMAIN lastAttackTime[c]
                  /\ now - lastAttackTime[c][targetId] < 500
                 THEN TongueAttackEvents(c, targetId) = <<>>
                 ELSE /\ Len(TongueAttackEvents(c, targetId)) = 1
                      /\ TongueAttackEvents(c, targetId)[1].type
                           \in {"playerDamaged", "playerDied"})
  /\ [][\A c \in Sockets, targetId \in Victims :
          (Alive(c) /\ Alive(targetId) /\ TongueAttack(c, targetId))
            => IF /\ targetId \in DOMAIN lastAttackTime[c]
                  /\ now - lastAttackTime[c][targetId] < 500
                 THEN /\ players' = players
                      /\ lastAttackTime' = lastAttackTime
                 ELSE /\ Hit(targetId)
                      /\ lastAttackTime'[c][targetId] = now]_vars

(* the target was hit exactly 500 ms ago and both players are there: the
   next attack is the one at the boundary *)
C24_Witness ==
  \E c \in Sockets, targetId \in Victims :
    /\ Alive(c) /\ Alive(targetId)
    /\ targetId \in DOMAIN lastAttackTime[c]
    /\ now - lastAttackTime[c][targetId] = 500
    /\ players[targetId].health < players[targetId].maxHealth

(* C25: every generated pad list starts with the spawn pad at the centre of
   the world, and any two of its pads are at least 240 apart. *)
C25_PadsApart ==
  /\ lilyPads[1].id = "pad-center"
  /\ lilyPads[1].isSpawnPoint
  /\ lilyPads[1].x * 2 = WorldWidth
  /\ lilyPads[1].y * 2 = WorldHeight
  /\ \A i, j \in 1..Len(lilyPads) :
       i # j => Distance2(lilyPads[i].x, lilyPads[i].y, lilyPads[j].x, lilyPads[j].y)
                  >= 240 * 240

(* a world with a pad of the grid phase and two of the connector phase, two
   of its pads exactly 240 apart, and a player on a connector pad *)
C25_Witness ==
  /\ \E i, j, k \in 1..Len(lilyPads) :
       /\ lilyPads[i].id = "pad-3-6"
       /\ lilyPads[j].id = "pad-extra-0"
       /\ lilyPads[k].id = "pad-extra-1"
       /\ Distance2(lilyPads[j].x, lilyPads[j].y, lilyPads[k].x, lilyPads[k].y) = 240 * 240
       /\ "s1" \in DOMAIN players /\ OnPad(players["s1"], lilyPads[k])

(* C26: in every reachable state every player of the registry, swimming or
   not, is at the coordinates of a lily pad. *)
C26_PlayersOnPads ==
  \A p \in DOMAIN players :
    \E i \in 1..Len(lilyPads) :
      players[p].x = lilyPads[i].x /\ players[p].y = lilyPads[i].y

(* a swimming player and the player that pushed it, on the second pad *)
C26_Witness ==
  \E a, b \in DOMAIN players :
    /\ a # b
    /\ players[a].isSwimming /\ ~players[b].isSwimming
    /\ OnPad(players[a], lilyPads[2]) /\ OnPad(players[b], lilyPads[2])

(* C27: the reply of checkName(name) says true exactly when the name is not
   reserved, and handling checkName changes no player, name, fly or timer. *)
C27_CheckNameReply ==
  /\ [](\A c \in Sockets, name \in Names :
          status[c] = "open"
            => CheckNameEvents(c, name)
                 = <<[type |-> "checkNameReply", to |-> c,
                      isAvailable |-> (name \notin takenUsernames)]>>)
  /\ [][\A c \in Sockets, name \in Names :
          CheckName(c, name)
            => UNCHANGED <<players, playerNames, takenUsernames, socketPlayerName,
                           flies, timers>>]_vars

(* one name is reserved and another is not, while a connection without a
   player can ask *)
C27_Witness ==
  /\ Name16 \in takenUsernames
  /\ "" \notin takenUsernames
  /\ \E c \in Sockets : status[c] = "open" /\ ~Alive(c)

(* C28: a move pushes only occupants strictly smaller than the mover, never
   the mover, and changes the position of no other player. *)
C28_PushOnlySmaller ==
  [][\A c \in Sockets, padId \in PadIds :
       (Alive(c) /\ MoveToLilyPad(c, padId))
         => /\ \A o \in PushedInStep :
                 o # c /\ players[o].size < players[c].size
            /\ \A o \in DOMAIN players \ {c} :
                 /\ o \in DOMAIN players'
                 /\ players'[o].x = players[o].x
                 /\ players'[o].y = players[o].y]_vars

(* two players of the same size on the second pad, neither swimming nor
   pushed before *)
C28_Witness ==
  \E a, b \in DOMAIN players :
    /\ a # b
    /\ players[a].size = players[b].size
    /\ OnPad(players[a], lilyPads[2]) /\ OnPad(players[b], lilyPads[2])
    /\ ~players[a].isSwimming /\ ~players[b].isSwimming
    /\ players[a].lastPushTime = Epoch /\ players[b].lastPushTime = Epoch

(* C29: a rejected newPlayer from a connection without a player changes no
   player and no reserved name and broadcasts nothing; from a connection
   with a player it removes the player, releases the name the connection
   reserved and broadcasts playerDisconnected. *)
C29_RejectedNewPlayer ==
  [][\A c \in Sockets, name \in Names :
       (status[c] = "open" /\ NameRejected(name) /\ NewPlayer(c, name))
         => IF ~Alive(c)
              THEN /\ players' = players
                   /\ takenUsernames' = takenUsernames
                   /\ NewPlayerEvents(c, name, lilyPads[1]) = <<>>
              ELSE /\ c \notin DOMAIN players'
                   /\ Joined(c) => socketPlayerName[c] \notin takenUsernames'
                   /\ NewPlayerEvents(c, name, lilyPads[1])
                        = <<[type |-> "playerDisconnected", id |-> c]>>]_vars

(* C30: a tick keeps the flies' ids, in their order, and speeds, and leaves
   the players, the names and the pads alone; it broadcasts one fliesUpdated
   whose entries are the id, x, y and angle of the flies after the tick. *)
C30_TickFrame ==
  [][\A r \in {LowDraw, HighDraw} :
       Tick(SameDraw(r))
         => /\ Len(flies') = Len(flies)
            /\ \A i \in 1..Len(flies) :
                 /\ flies'[i].id = flies[i].id
                 /\ flies'[i].speed = flies[i].speed
                 /\ DOMAIN flies'[i] = DOMAIN flies[i]
            /\ UNCHANGED <<players, playerNames, takenUsernames, socketPlayerName,
                           lilyPads, nextFlyId>>
            /\ TickEvents(SameDraw(r))
                 = <<[type |-> "fliesUpdated",
                      flies |-> [i \in 1..Len(flies') |->
                                   [id |-> flies'[i].id, x |-> flies'[i].x,
                                    y |-> flies'[i].y, angle |-> flies'[i].angle]]]>>]_vars

(* the tick has run on a population in which a caught fly was replaced,
   with a player in the registry *)
C30_Witness ==
  /\ tickCount = MaxTicks
  /\ nextFlyId > InitialFlies
  /\ Alive("s1")
  /\ \E i \in 1..Len(flies) : flies[i].x # InitialFlyList[i].x

(* C31: in every reachable state every fly is inside the world shrunk by
   the margin of 50 on every side (coordinates in tenths). *)
C31_FliesInsideMargin ==
  \A i \in 1..Len(flies) :
    /\ 500 <= flies[i].x /\ flies[i].x <= (WorldWidth - 50) * 10
    /\ 500 <= flies[i].y /\ flies[i].y <= (WorldHeight - 50) * 10

(* after a tick a fly sits on the left margin heading back into the world,
   next to a fly generated by a catch *)
C31_Witness ==
  /\ tickCount > 0
  /\ nextFlyId > InitialFlies
  /\ \E i \in 1..Len(flies) :
       flies[i].x = FlyBouncePadding * 10 /\ Cos10(flies[i].angle) > 0

(* C32: every generated pad is at least 160 away from every edge of the
   world. *)
C32_PadsInsideMargin ==
  \A i \in 1..Len(lilyPads) :
    /\ 160 <= lilyPads[i].x /\ lilyPads[i].x <= WorldWidth - 160
    /\ 160 <= lilyPads[i].y /\ lilyPads[i].y <= WorldHeight - 160

(* C33: every player in the registry has health above 0, and a connection
   without a player gets one only by its own respawn or newPlayer. *)
C33_AliveInRegistry ==
  /\ [](\A p \in DOMAIN players : players[p].health > 0)
  /\ [][\A c \in AllSockets :
          (c \notin DOMAIN players /\ c \in DOMAIN players')
            => /\ status[c] = "open"
               /\ Respawn(c) \/ NewPlayer(c, "frog-" \o c)]_vars

(* the state after the killing blow: the target is gone, the attack is
   recorded, the attacker is in the registry *)
C33_Witness ==
  \E c \in AllSockets, targetId \in Victims :
    /\ Dead(targetId)
    /\ Alive(c)
    /\ targetId \in DOMAIN lastAttackTime[c]
    /\ lastAttackTime[c][targetId] = now

(* C34: the name of every player in the registry is reserved, and by the
   player's own connection; a respawn from a connection that never joined
   creates no player. *)
C34_PlayerNamesReserved ==
  /\ [](\A p \in DOMAIN players :
          /\ players[p].name \in takenUsernames
          /\ Joined(p)
          /\ socketPlayerName[p] = players[p].name)
  /\ [][\A c \in Sockets :
          (status[c] = "open" /\ ~Joined(c) /\ Respawn(c)) => players' = players]_vars

(* C35: every reserved name is the current name of exactly one open
   connection, so that no name is reserved once every connection has
   disconnected. *)
C35_NoLeakedReservation ==
  \A name \in takenUsernames :
    Cardinality({c \in AllSockets :
                   /\ status[c] = "open"
                   /\ Joined(c)
                   /\ socketPlayerName[c] = name}) = 1

(* C36: when a timer emits playerCanMove for an id, the id is in the
   registry and its player is not swimming after the step. *)
C36_CanMoveMeansNotSwimming ==
  [][\A t \in timers :
       (TimerEvents(t) # <<>> /\ SwimTimer(t))
         => /\ t.id \in DOMAIN players'
            /\ ~players'[t.id].isSwimming]_vars

(* C37: a catchFly for an id in the population removes that fly for good and
   gives the caller 1 xp and no one else any; a catchFly for an id that is
   not in the population, such as one caught before, would emit nothing and
   changes no player and no fly; no two flies share an id and an id that
   left the population was issued before and is never issued again. *)
C37_XpOncePerFly ==
  /\ [](/\ \A i, j \in 1..Len(flies) : i # j => flies[i].id # flies[j].id
         /\ \A c \in Sockets, flyId \in CatchIds :
              flyId \notin FlyIds => CatchFlyEvents(c, flyId, MidDraw) = <<>>)
  /\ [][/\ \A c \in Sockets, flyId \in CatchIds :
             (Alive(c) /\ CatchFly(c, flyId, MidDraw))
               => IF flyId \in FlyIds
                    THEN /\ flyId \notin FlyIds'
                         /\ players'[c].xp = players[c].xp + 1
                         /\ \A o \in DOMAIN players \ {c} : players'[o] = players[o]
                    ELSE UNCHANGED <<players, flies>>
        /\ \A n \in 1..(InitialFlies + MaxCatches) :
             (FlyId(n) \notin FlyIds /\ FlyId(n) \in FlyIds') => n > nextFlyId]_vars

(* both connections have caught a fly, and the first fly and the first
   replacement are gone: a catchFly for them comes second *)
C37_Witness ==
  /\ FlyId(1) \notin FlyIds
  /\ FlyId(InitialFlies + 1) \notin FlyIds
  /\ \A c \in Sockets : Alive(c) /\ players[c].xp >= 1

(* C38: in every state, a catch that applies would emit flyCaught for the
   fly and then newFly for another id; a move would emit every playerPushed
   before its one playerMoved; and the snapshot of a tick holds the id of no
   fly that was caught. *)
C38_EventOrder ==
  /\ \A c \in Sockets, flyId \in FlyIdInputs :
       CatchApplies(c, flyId)
         => LET events == CatchFlyEvents(c, flyId, MidDraw)
            IN  /\ Len(events) = 2
                /\ events[1].type = "flyCaught" /\ events[1].flyId = flyId
                /\ events[2].type = "newFly" /\ events[2].fly.id # flyId
  /\ \A c \in Sockets, padId \in PadIds :
       LET events == MoveToLilyPadEvents(c, padId)
       IN  /\ MoveApplies(c, padId)
                => Cardinality({i \in 1..Len(events) : events[i].type = "playerMoved"}) = 1
           /\ \A i, j \in 1..Len(events) :
                (events[i].type = "playerPushed" /\ events[j].type = "playerMoved")
                  => i < j
  /\ LET events == TickEvents(SameDraw(MidDraw))
     IN  /\ Len(events) = 1
         /\ \A n \in 1..nextFlyId :
              FlyId(n) \notin FlyIds
                => \A i \in 1..Len(events[1].flies) : events[1].flies[i].id # FlyId(n)

(* a fly was caught and replaced, and a move onto the pad of a smaller
   player would push it *)
C38_Witness ==
  /\ nextFlyId > InitialFlies
  /\ \E c \in Sockets, i \in 1..Len(lilyPads) :
       /\ MoveApplies(c, lilyPads[i].id)
       /\ Pushed(c, lilyPads[i]) # {}

====
